---- MODULE Spec2Model ----
(***************************************************************************)
(* The fetch-telegram-trades edge function of ai-bot-ledger: the message   *)
(* parser (parseTradingMessage) and the request handler passed to serve,   *)
(* with the trades table it reads and writes.                              *)
(*                                                                         *)
(* A text is a sequence of characters, each a one-element string.  The     *)
(* characters outside ASCII carry a name: "AE" "ae" "OE" "oe" "AA" "aa"    *)
(* are the Swedish letters, "UP" "DOWN" "MONEY" the chart-up, chart-down   *)
(* and money-bag emoji, "LF" the line feed.                                *)
(*                                                                         *)
(* An optional value (a JavaScript undefined or null, an SQL NULL) is the  *)
(* empty sequence <<>>; a present value v is <<v>>.                        *)
(***************************************************************************)
EXTENDS Integers, Sequences, FiniteSets, TLC

None == <<>>
Some(v) == <<v>>

Min(S) == CHOOSE x \in S : \A y \in S : x <= y
Max(S) == CHOOSE x \in S : \A y \in S : y <= x

(***************************************************************************)
(* Characters                                                              *)
(***************************************************************************)
UpperSeq ==
    <<"A", "B", "C", "D", "E", "F", "G", "H", "I", "J", "K", "L", "M", "N",
      "O", "P", "Q", "R", "S", "T", "U", "V", "W", "X", "Y", "Z", "AE", "OE", "AA">>
LowerSeq ==
    <<"a", "b", "c", "d", "e", "f", "g", "h", "i", "j", "k", "l", "m", "n",
      "o", "p", "q", "r", "s", "t", "u", "v", "w", "x", "y", "z", "ae", "oe", "aa">>
DigitSeq == <<"0", "1", "2", "3", "4", "5", "6", "7", "8", "9">>

\* the character class [A-Z] under the i flag
AsciiLetter == {UpperSeq[i] : i \in 1..26} \cup {LowerSeq[i] : i \in 1..26}
\* the character class [0-9]
Digit == {DigitSeq[i] : i \in 1..10}
\* the character class [A-Z0-9] under the i flag
AsciiAlnum == AsciiLetter \cup Digit
\* the character class \s
Whitespace == {" ", "LF"}
\* the character class [+-]
Sign == {"+", "-"}

\* case folding of the i flag: two characters match when their folds agree
Fold(c) ==
    IF \E i \in 1..Len(UpperSeq) : UpperSeq[i] = c
    THEN LowerSeq[CHOOSE i \in 1..Len(UpperSeq) : UpperSeq[i] = c]
    ELSE c

DigitVal(c) == (CHOOSE i \in 1..10 : DigitSeq[i] = c) - 1

(***************************************************************************)
(* String.prototype.includes and the pieces of the regular expressions     *)
(***************************************************************************)
\* lit occurs in text at position i, case-sensitively
MatchesAt(text, i, lit) ==
    /\ i + Len(lit) - 1 <= Len(text)
    /\ \A k \in 1..Len(lit) : text[i + k - 1] = lit[k]

\* lit occurs in text at position i under the i flag
MatchesAtI(text, i, lit) ==
    /\ i + Len(lit) - 1 <= Len(text)
    /\ \A k \in 1..Len(lit) : Fold(text[i + k - 1]) = Fold(lit[k])

\* text.includes(needle)
includes(text, needle) == \E i \in 1..Len(text) : MatchesAt(text, i, needle)

\* a greedy run of characters of class from position i: the position after it
RunEnd(text, i, class) ==
    CHOOSE j \in i..(Len(text) + 1) :
        /\ \A k \in i..(j - 1) : text[k] \in class
        /\ j = Len(text) + 1 \/ text[j] \notin class

CharAt(text, i) == IF i \in 1..Len(text) THEN text[i] ELSE "EOF"

\* [0-9]+\.?[0-9]* at position p, after [+-]? when signed: the position after
\* the match, or 0 when there is none
NumberEnd(text, p, signed) ==
    LET s == IF signed /\ CharAt(text, p) \in Sign THEN p + 1 ELSE p
        d == RunEnd(text, s, Digit)
    IN  IF s > Len(text) \/ d = s THEN 0
        ELSE IF CharAt(text, d) = "." THEN RunEnd(text, d + 1, Digit)
        ELSE d

\* the leftmost match of a pattern: MatchEnd[i] is the end of the match that
\* starts at i (0: none), CaptureStart[i] the position where group 1 starts
\* the result is match[1], or None when the pattern does not match
Leftmost(text, MatchEnd, CaptureStart) ==
    LET starts == {i \in 1..Len(text) : MatchEnd[i] > 0}
    IN  IF starts = {} THEN None
        ELSE LET i == Min(starts)
             IN  Some(SubSeq(text, CaptureStart[i], MatchEnd[i] - 1))

(***************************************************************************)
(* parseFloat on a string a number pattern captured                        *)
(* A decimal is [m |-> mantissa, e |-> number of decimals], m * 10^(-e),   *)
(* without trailing zero decimals: 0.673000 and 0.673 are the same value.  *)
(***************************************************************************)
RECURSIVE DigitsToInt(_)
DigitsToInt(ds) ==
    IF ds = <<>> THEN 0
    ELSE 10 * DigitsToInt(SubSeq(ds, 1, Len(ds) - 1)) + DigitVal(ds[Len(ds)])

RECURSIVE Normalize(_)
Normalize(v) ==
    IF v.e > 0 /\ v.m % 10 = 0 THEN Normalize([m |-> v.m \div 10, e |-> v.e - 1])
    ELSE v

parseFloat(s) ==
    LET neg  == s[1] = "-"
        body == IF s[1] \in Sign THEN Tail(s) ELSE s
        dot  == RunEnd(body, 1, Digit)
        int  == SubSeq(body, 1, dot - 1)
        frac == SubSeq(body, dot + 1, Len(body))
        mag  == DigitsToInt(int \o frac)
    IN  Normalize([m |-> IF neg THEN 0 - mag ELSE mag, e |-> Len(frac)])

Negate(v) == [m |-> 0 - v.m, e |-> v.e]
IsPositive(v) == v.m > 0

(***************************************************************************)
(* The literals of parseTradingMessage                                     *)
(***************************************************************************)
needle_POSITION_STANGD ==
    <<"P", "O", "S", "I", "T", "I", "O", "N", " ", "S", "T", "AE", "N", "G", "D">>
needle_POSITION_CLOSED ==
    <<"P", "O", "S", "I", "T", "I", "O", "N", " ", "C", "L", "O", "S", "E", "D">>
needle_STANGD_POSITION ==
    <<"S", "T", "AE", "N", "G", "D", " ", "P", "O", "S", "I", "T", "I", "O", "N">>
needle_AVSLUTAD_POSITION ==
    <<"A", "V", "S", "L", "U", "T", "A", "D", " ", "P", "O", "S", "I", "T", "I", "O", "N">>
needle_PnL ==
    <<"P", "n", "L", ":">>
needle_Vinst ==
    <<"V", "i", "n", "s", "t", ":">>
needle_Forlust ==
    <<"F", "oe", "r", "l", "u", "s", "t", ":">>
needle_vinst ==
    <<"v", "i", "n", "s", "t">>
needle_forlust ==
    <<"f", "oe", "r", "l", "u", "s", "t">>
needle_resultat ==
    <<"r", "e", "s", "u", "l", "t", "a", "t">>
needle_profit ==
    <<"p", "r", "o", "f", "i", "t">>
needle_loss ==
    <<"l", "o", "s", "s">>
needle_VINST ==
    <<"V", "I", "N", "S", "T">>
needle_PROFIT ==
    <<"P", "R", "O", "F", "I", "T">>
needle_FORLUST ==
    <<"F", "OE", "R", "L", "U", "S", "T">>
needle_LOSS ==
    <<"L", "O", "S", "S">>
label_Symbol ==
    <<"S", "y", "m", "b", "o", "l", ":">>
label_Valuta ==
    <<"V", "a", "l", "u", "t", "a", ":">>
label_Par ==
    <<"P", "a", "r", ":">>
label_Utgangspris ==
    <<"U", "t", "g", "aa", "n", "g", "s", "p", "r", "i", "s", ":">>
label_Resultat ==
    <<"R", "e", "s", "u", "l", "t", "a", "t", ":">>

emoji_money == <<"MONEY">>
emoji_up == <<"UP">>
emoji_down == <<"DOWN">>

(***************************************************************************)
(* parseTradingMessage, stage by stage                                     *)
(***************************************************************************)
\* a parser without the relevance filter
isCloseMessage_always(text) == TRUE

\* the close indicators, matched case-sensitively
isCloseMessage(text) ==
    \/ includes(text, needle_POSITION_STANGD)
    \/ includes(text, needle_POSITION_CLOSED)
    \/ includes(text, needle_STANGD_POSITION)
    \/ includes(text, needle_AVSLUTAD_POSITION)
    \/ includes(text, needle_PnL)
    \/ includes(text, needle_Vinst)
    \/ includes(text, needle_Forlust)
    \/ includes(text, needle_vinst)
    \/ includes(text, needle_forlust)
    \/ includes(text, needle_resultat)
    \/ includes(text, needle_profit)
    \/ includes(text, needle_loss)
    \/ includes(text, emoji_up)
    \/ includes(text, emoji_down)

\* /<label>\s*([A-Z0-9]+-[A-Z]+)/i matched from position i: where group 1 starts
LabelledSymbolStart(text, i, label) == RunEnd(text, i + Len(label), Whitespace)

\* /<label>\s*([A-Z0-9]+-[A-Z]+)/i matched from position i: the position after the
\* match, 0 when it does not match there
LabelledSymbolEnd(text, i, label) ==
    IF ~MatchesAtI(text, i, label) THEN 0
    ELSE LET a == LabelledSymbolStart(text, i, label)
             b == RunEnd(text, a, AsciiAlnum)
         IN  IF b > a /\ CharAt(text, b) = "-"
             THEN LET c == RunEnd(text, b + 1, AsciiLetter)
                  IN  IF c > b + 1 THEN c ELSE 0
             ELSE 0

\* /([A-Z]{3,4}-[A-Z]{3,4})/i matched from position i
DirectSymbolEnd(text, i) ==
    LET n1 == Min({RunEnd(text, i, AsciiLetter) - i, 4})
    IN  IF n1 >= 3 /\ CharAt(text, i + n1) = "-"
        THEN LET s  == i + n1 + 1
                 n2 == Min({RunEnd(text, s, AsciiLetter) - s, 4})
             IN  IF n2 >= 3 THEN s + n2 ELSE 0
        ELSE 0

LabelledSymbol(text, label) ==
    Leftmost(text, [i \in 1..Len(text) |-> LabelledSymbolEnd(text, i, label)],
                   [i \in 1..Len(text) |-> LabelledSymbolStart(text, i, label)])

DirectSymbol(text) ==
    Leftmost(text, [i \in 1..Len(text) |-> DirectSymbolEnd(text, i)],
                   [i \in 1..Len(text) |-> i])

\* symbolPatterns, tried in order; the symbol is match[1] as written in the text
symbolPatterns(text) ==
    << LabelledSymbol(text, label_Symbol),
       LabelledSymbol(text, label_Valuta),
       LabelledSymbol(text, label_Par),
       LabelledSymbol(text, emoji_money),
       DirectSymbol(text) >>

\* the first element of a sequence of optional matches that is a match
FirstMatch(matches) ==
    LET hits == {k \in 1..Len(matches) : matches[k] # None}
    IN  IF hits = {} THEN 0 ELSE Min(hits)

extractSymbol(text) ==
    LET matches == symbolPatterns(text)
        k       == FirstMatch(matches)
    IN  IF k = 0 THEN None ELSE matches[k]

\* the action, from the upper-case words of the text
determineAction(text) ==
    IF includes(text, needle_VINST) \/ includes(text, needle_PROFIT) THEN "CLOSE_WIN"
    ELSE IF includes(text, needle_FORLUST) \/ includes(text, needle_LOSS) THEN "CLOSE_LOSS"
    ELSE "CLOSE"

\* /<label>\s*\$(number)/i or /<label>\s*\$?(number)/i from position i: where
\* group 1 starts
LabelledAmountStart(text, i, label) ==
    LET a == RunEnd(text, i + Len(label), Whitespace)
    IN  IF CharAt(text, a) = "$" THEN a + 1 ELSE a

LabelledAmountEnd(text, i, label, dollarRequired, signed) ==
    IF ~MatchesAtI(text, i, label) THEN 0
    ELSE LET a == RunEnd(text, i + Len(label), Whitespace)
         IN  IF dollarRequired /\ CharAt(text, a) # "$" THEN 0
             ELSE NumberEnd(text, LabelledAmountStart(text, i, label), signed)

LabelledAmount(text, label, dollarRequired, signed) ==
    Leftmost(text, [i \in 1..Len(text) |->
                       LabelledAmountEnd(text, i, label, dollarRequired, signed)],
                   [i \in 1..Len(text) |-> LabelledAmountStart(text, i, label)])

\* /<emoji>.*?\$([+-]?[0-9]+\.?[0-9]*)/i from position i: the "$" signs the lazy
\* .*? can stop at (. matches no line feed)
EmojiDollars(text, i) ==
    {j \in (i + 1)..Len(text) :
        /\ text[j] = "$"
        /\ \A k \in (i + 1)..(j - 1) : text[k] # "LF"
        /\ NumberEnd(text, j + 1, TRUE) > 0}

EmojiAmountEnd(text, i, emoji) ==
    IF ~MatchesAt(text, i, emoji) \/ EmojiDollars(text, i) = {} THEN 0
    ELSE NumberEnd(text, Min(EmojiDollars(text, i)) + 1, TRUE)

EmojiAmount(text, emoji) ==
    Leftmost(text, [i \in 1..Len(text) |-> EmojiAmountEnd(text, i, emoji)],
                   [i \in 1..Len(text) |->
                       IF EmojiDollars(text, i) = {} THEN 0
                       ELSE Min(EmojiDollars(text, i)) + 1])

\* exitPriceMatch: /Utgångspris:\s*\$([0-9]+\.?[0-9]*)/i
exitPriceMatch(text) == LabelledAmount(text, label_Utgangspris, TRUE, FALSE)

\* pnlPatterns, tried in order
pnlPatterns(text) ==
    << LabelledAmount(text, needle_PnL, TRUE, TRUE),
       LabelledAmount(text, needle_Vinst, FALSE, TRUE),
       LabelledAmount(text, needle_Forlust, FALSE, TRUE),
       LabelledAmount(text, label_Resultat, FALSE, TRUE),
       EmojiAmount(text, emoji_up),
       EmojiAmount(text, emoji_down) >>

\* pattern.source.includes('Förlust') holds of the third pattern only
LossPattern == 3

\* the P/L as written, whatever the label
extractProfitLoss_as_written(text) ==
    LET matches == pnlPatterns(text)
        k       == FirstMatch(matches)
    IN  IF k = 0 THEN None ELSE Some(parseFloat(matches[k][1]))

extractProfitLoss(text) ==
    LET matches == pnlPatterns(text)
        k       == FirstMatch(matches)
    IN  IF k = 0 THEN None
        ELSE LET value == parseFloat(matches[k][1])
             IN  IF k = LossPattern /\ IsPositive(value)
                 THEN Some(Negate(value)) ELSE Some(value)

(***************************************************************************)
(* new Date(ms).toISOString(), for a time at or after 1970                 *)
(***************************************************************************)
Pad(n, width) ==
    LET s == ToString(n)
    IN  IF width = 2 THEN (IF n < 10 THEN "0" \o s ELSE s)
        ELSE IF width = 3
             THEN (IF n < 10 THEN "00" \o s ELSE IF n < 100 THEN "0" \o s ELSE s)
        ELSE (IF n < 10 THEN "000" \o s ELSE IF n < 100 THEN "00" \o s
              ELSE IF n < 1000 THEN "0" \o s ELSE s)

\* message.date * 1000: a time in milliseconds, kept as whole seconds and the
\* milliseconds left over (the product does not fit a 32-bit integer)
secondsToMillis(date) == [sec |-> date, msec |-> 0]

toISOString(t) ==
    LET days == t.sec \div 86400
        rest == t.sec % 86400
        z    == days + 719468
        era  == z \div 146097
        doe  == z - era * 146097
        yoe  == (doe - doe \div 1460 + doe \div 36524 - doe \div 146096) \div 365
        doy  == doe - (365 * yoe + yoe \div 4 - yoe \div 100)
        mp   == (5 * doy + 2) \div 153
        d    == doy - (153 * mp + 2) \div 5 + 1
        mo   == IF mp < 10 THEN mp + 3 ELSE mp - 9
        y    == yoe + era * 400 + (IF mo <= 2 THEN 1 ELSE 0)
    IN  Pad(y, 4) \o "-" \o Pad(mo, 2) \o "-" \o Pad(d, 2) \o "T"
        \o Pad(rest \div 3600, 2) \o ":" \o Pad((rest \div 60) % 60, 2) \o ":"
        \o Pad(rest % 60, 2) \o "." \o Pad(t.msec, 3) \o "Z"

(***************************************************************************)
(* parseTradingMessage: a Trade, or None for null                          *)
(* A message is [message_id, text, date, chat_id]; text is optional.       *)
(***************************************************************************)
parseTradingMessage(message) ==
    IF message.text = None \/ message.text[1] = <<>> THEN None
    ELSE LET text   == message.text[1]
             symbol == extractSymbol(text)
             exit   == exitPriceMatch(text)
         IN  IF ~isCloseMessage(text) THEN None
             ELSE IF symbol = None THEN None
             ELSE IF exit = None THEN None
             ELSE Some([symbol              |-> symbol[1],
                        action              |-> determineAction(text),
                        price               |-> parseFloat(exit[1]),
                        quantity            |-> None,
                        profit_loss         |-> extractProfitLoss(text),
                        timestamp           |-> toISOString(secondsToMillis(message.date)),
                        telegram_message_id |-> message.message_id,
                        raw_message         |-> text])

(***************************************************************************)
(* The handler passed to serve, and what it talks to                       *)
(*                                                                         *)
(* Every await of the handler ends one step: the steps of concurrent       *)
(* requests interleave at the awaits and nowhere else.                     *)
(***************************************************************************)
NumRuns == 2
MaxRows == 2
MaxMsgId == 1

Runs == 1..NumRuns
Users == {"u1", "u2"}
\* the bearer tokens a request may carry: one per user, and one no user owns
Tokens == {"jwt-u1", "jwt-u2", "jwt-bad"}
\* TELEGRAM_CHAT_ID
chatId == "chat"

VARIABLES
    trades,        \* the rows of public.trades
    updates,       \* the updates the Telegram bot API holds, in arrival order
    credentials,   \* TELEGRAM_BOT_TOKEN and TELEGRAM_CHAT_ID are both set
    runs,          \* the requests: where each is in the handler, and its locals
    probe          \* a message handed to parseTradingMessage on its own, and
                   \* what it returned

vars == <<trades, updates, credentials, runs, probe>>

(***************************************************************************)
(* Texts of the bot                                                        *)
(***************************************************************************)
text_closed_win ==
    <<"P", "O", "S", "I", "T", "I", "O", "N", " ", "C", "L", "O", "S", "E", "D", " ", "S", "y", "m", "b", "o", "l", ":", " ", "B", "T", "C", "-", "U", "S", "D", "T", " ", "U", "t", "g", "aa", "n", "g", "s", "p", "r", "i", "s", ":", " ", "$", "1", "0", " ", "V", "i", "n", "s", "t", ":", " ", "$", "5">>
text_stangd_pnl ==
    <<"DOWN", " ", "P", "O", "S", "I", "T", "I", "O", "N", " ", "S", "T", "AE", "N", "G", "D", " ", "S", "y", "m", "b", "o", "l", ":", " ", "B", "T", "C", "-", "U", "S", "D", "T", " ", "U", "t", "g", "aa", "n", "g", "s", "p", "r", "i", "s", ":", " ", "$", "0", ".", "6", "7", "3", "0", "0", "0", " ", "P", "n", "L", ":", " ", "$", "-", "0", ".", "0", "1", "1", "7">>
text_opened ==
    <<"P", "o", "s", "i", "t", "i", "o", "n", " ", "o", "p", "e", "n", "e", "d", " ", "B", "T", "C", "-", "U", "S", "D", "T", " ", "@", " ", "5", "0", "0", "0", "0">>

(***************************************************************************)
(* The trades table                                                        *)
(***************************************************************************)
\* the table without the unique index
no_unique_index(rows) == TRUE

\* idx_trades_telegram_message_id_unique: no two rows share a non-NULL
\* telegram_message_id
idx_trades_telegram_message_id_unique(rows) ==
    \A a, b \in rows :
        (a.telegram_message_id # None /\ a.telegram_message_id = b.telegram_message_id)
            => a = b

\* CHECK (action IN ('BUY', 'SELL', 'LONG', 'SHORT', 'CLOSE'))
trades_action_check(action) == action \in {"BUY", "SELL", "LONG", "SHORT", "CLOSE"}

\* the columns of a row that come from a Trade; quantity, profit_loss and
\* raw_message are nullable
tradeColumns(trade) ==
    [symbol      |-> trade.symbol,
     action      |-> trade.action,
     price       |-> trade.price,
     quantity    |-> trade.quantity,
     profit_loss |-> trade.profit_loss,
     timestamp   |-> trade.timestamp,
     raw_message |-> Some(trade.raw_message)]

\* a row: id is the primary key, telegram_message_id and user_id are nullable
Row(id, telegram_message_id, user_id, columns) ==
    [id                  |-> id,
     symbol              |-> columns.symbol,
     action              |-> columns.action,
     price               |-> columns.price,
     quantity            |-> columns.quantity,
     profit_loss         |-> columns.profit_loss,
     timestamp           |-> columns.timestamp,
     telegram_message_id |-> telegram_message_id,
     raw_message         |-> columns.raw_message,
     user_id             |-> user_id]

\* what the rows stored before any request hold: a closed position
storedColumns ==
    tradeColumns(parseTradingMessage([message_id |-> 0, text |-> Some(text_stangd_pnl),
                                      date |-> 1700000000, chat_id |-> chatId])[1])

\* the rows the table can hold before any request
Rows ==
    {Row(<<m, o>>, m, o, storedColumns) :
        m \in {None} \cup {Some(n) : n \in 0..MaxMsgId},
        o \in {None} \cup {Some(u) : u \in Users}}

Tables ==
    {rows \in SUBSET Rows :
        Cardinality(rows) <= MaxRows /\ idx_trades_telegram_message_id_unique(rows)}

\* .select('id').is('user_id', null)
selectOrphanedTrades(rows) == {row.id : row \in {x \in rows : x.user_id = None}}

\* an update without its filter: every row is given to the user
updateOrphanedTrades_every_row(rows, userId) ==
    {[row EXCEPT !.user_id = Some(userId)] : row \in rows}

\* an update that matches no row
updateOrphanedTrades_no_row(rows, userId) == rows

\* .update({ user_id: user.id }).is('user_id', null)
updateOrphanedTrades(rows, userId) ==
    {IF row.user_id = None THEN [row EXCEPT !.user_id = Some(userId)] ELSE row :
        row \in rows}

\* .select('*', { count: 'exact', head: true }).eq('user_id', user.id)
countTrades(rows, userId) == Cardinality({row \in rows : row.user_id = Some(userId)})

\* .select('telegram_message_id').eq('user_id', user.id)
\*     .order('telegram_message_id', { ascending: false }).limit(1).single()
\* In descending order PostgreSQL puts the NULLs first.
selectLatestTrade(rows, userId) ==
    LET mine == {row \in rows : row.user_id = Some(userId)}
        ids  == {row.telegram_message_id[1] :
                    row \in {x \in mine : x.telegram_message_id # None}}
    IN  IF mine = {} THEN None
        ELSE IF \E row \in mine : row.telegram_message_id = None
             THEN Some([telegram_message_id |-> None])
        ELSE Some([telegram_message_id |-> Some(Max(ids))])

(***************************************************************************)
(* The Telegram bot API                                                    *)
(***************************************************************************)
Message(id, text, chat) ==
    [message |-> Some([message_id |-> id, text |-> text, date |-> 1700000000 + id,
                       chat_id |-> chat])]
\* an update that carries no message
OtherUpdate == [message |-> None]

\* the update lists the API may hold
Windows ==
    { <<>>,
      <<Message(1, Some(text_closed_win), chatId), Message(1, Some(text_stangd_pnl), chatId)>>,
      <<Message(1, Some(text_opened), chatId), Message(2, Some(text_stangd_pnl), chatId)>>,
      <<Message(1, None, chatId), Message(2, Some(text_closed_win), "elsewhere"),
        OtherUpdate>> }

\* the reply to getUpdates?limit=100[&offset=<offset>]: with an offset, the
\* messages from that id on
getUpdates(held, offset) ==
    IF offset = None THEN held
    ELSE SelectSeq(held, LAMBDA u : u.message = None
                                    \/ u.message[1].message_id >= offset[1])

\* the messages of the update lists, and what parseTradingMessage returns for
\* each (computed once)
MessagesHeld ==
    UNION {{w[i].message[1] : i \in {j \in 1..Len(w) : w[j].message # None}} :
              w \in Windows}
parsed == [m \in MessagesHeld |-> parseTradingMessage(m)]

\* the two loops over data.result: the trades of the messages of the chat
RECURSIVE parseUpdates(_)
parseUpdates(result) ==
    IF result = <<>> THEN <<>>
    ELSE LET update == Head(result)
             trade  == IF update.message # None /\ update.message[1].chat_id = chatId
                       THEN parsed[update.message[1]] ELSE None
         IN  trade \o parseUpdates(Tail(result))

(***************************************************************************)
(* Requests and responses                                                  *)
(***************************************************************************)
\* the Authorization header of a request: absent, or Bearer <token>
Authorizations == {None} \cup {Some(t) : t \in Tokens}

\* the requests that arrive: a pre-flight without and with a token, and a POST
\* with every Authorization header
Requests ==
    {[method |-> "OPTIONS", authorization |-> a] : a \in {None, Some("jwt-u1")}}
    \cup {[method |-> "POST", authorization |-> a] : a \in Authorizations}

\* supabase.auth.getUser(token): the user the token belongs to
getUser(token) ==
    IF token = "jwt-u1" THEN Some("u1")
    ELSE IF token = "jwt-u2" THEN Some("u2")
    ELSE None

\* new Response(null, { headers: corsHeaders })
preflightResponse == [status |-> 200, headers |-> {"cors"}, body |-> None]

\* a catch block that answers 200 and success
errorResponse_success(message) ==
    [status  |-> 200,
     headers |-> {"cors", "Content-Type"},
     body    |-> Some([success |-> TRUE, error |-> message])]

\* the response of the catch block
errorResponse(message) ==
    [status  |-> 500,
     headers |-> {"cors", "Content-Type"},
     body    |-> Some([success |-> FALSE, error |-> message])]

\* line 299 reads data after the two blocks that declare it (const data, lines
\* 221 and 280) have ended: no binding of that name is in scope there, and
\* evaluating it throws ReferenceError "data is not defined"
postBranchData == [throws |-> TRUE, message |-> "data is not defined"]

\* a handler without the pre-flight branch
isPreflight_never(req) == FALSE

\* req.method === 'OPTIONS'
isPreflight(req) == req.method = "OPTIONS"

\* the checks of lines 152-168 without the one on what getUser returns
authFailure_header_only(req) ==
    IF req.authorization = None THEN Some("Missing authorization header") ELSE None

\* the request fails the checks of lines 152-168: the message of the Error
\* thrown, None when it passes
authFailure(req) ==
    IF req.authorization = None THEN Some("Missing authorization header")
    ELSE IF getUser(req.authorization[1]) = None THEN Some("Invalid authentication token")
    ELSE None

\* offset: latestTrade?.telegram_message_id ? id + 1 : undefined
\* (null, undefined and 0 are falsy)
computeOffset(latestTrade) ==
    IF latestTrade = None THEN None
    ELSE IF latestTrade[1].telegram_message_id = None THEN None
    ELSE IF latestTrade[1].telegram_message_id[1] = 0 THEN None
    ELSE Some(latestTrade[1].telegram_message_id[1] + 1)

\* `&offset=${offset}` is added to the URL when offset is truthy
urlOffset(offset) == IF offset = None \/ offset[1] = 0 THEN None ELSE offset

\* !existingTradesCount || existingTradesCount === 0
shouldFetchHistorical(existingTradesCount) ==
    existingTradesCount = None \/ existingTradesCount[1] = 0

\* the locals of a run; four fields record what the run saw or did and belong
\* to no variable of the handler: after (the runs that had ended when the
\* request arrived), idsBefore (the telegram_message_ids stored then),
\* storedIds (the caller's telegram_message_ids when the latest trade was
\* selected) and inserted (the ids of the rows its upsert added)
noProbe == [message |-> None, returned |-> FALSE, result |-> None]

idleRun ==
    [pc                  |-> "idle",
     req                 |-> [method |-> "POST", authorization |-> None],
     user                |-> None,
     calls               |-> <<>>,
     updateError         |-> FALSE,
     existingTradesCount |-> None,
     latest              |-> None,
     offset              |-> None,
     data                |-> None,
     allTrades           |-> <<>>,
     uniqueTrades        |-> <<>>,
     insertError         |-> FALSE,
     inserted            |-> {},
     response            |-> None,
     after               |-> {},
     idsBefore           |-> {},
     storedIds           |-> {}]

\* the telegram_message_ids the rows hold
messageIds(rows) ==
    {row.telegram_message_id[1] : row \in {x \in rows : x.telegram_message_id # None}}

Init ==
    /\ trades \in Tables
    /\ updates \in Windows
    /\ credentials \in BOOLEAN
    /\ runs = [r \in Runs |-> idleRun]
    /\ probe = noProbe

\* the run r returns response: its single return
Respond(run, response) == [run EXCEPT !.pc = "done", !.response = Some(response)]

\* a step of run r that leaves the table and the API as they are
Step(r, run) ==
    /\ runs' = [runs EXCEPT ![r] = run]
    /\ UNCHANGED <<updates, credentials, probe>>

Done == {r \in Runs : runs[r].pc = "done"}

\* lines 144-168, up to the await of getUser: a request arrives (the runs are
\* numbered in the order of their arrival)
Receive(r) ==
    /\ runs[r].pc = "idle"
    /\ \A q \in Runs : q < r => runs[q].pc # "idle"
    /\ \E req \in Requests :
        LET run == [runs[r] EXCEPT !.req = req, !.after = Done,
                                   !.idsBefore = messageIds(trades)]
        IN  Step(r, IF isPreflight(req) THEN Respond(run, preflightResponse)
                    ELSE IF req.authorization = None
                         THEN Respond(run, errorResponse(authFailure(req)[1]))
                    ELSE [run EXCEPT !.pc = "getUser",
                                     !.calls = Append(@, "auth.getUser")])
    /\ UNCHANGED trades

\* lines 164-183: getUser answers; the orphan select is sent
GetUser(r) ==
    /\ runs[r].pc = "getUser"
    /\ LET run == runs[r]
       IN  Step(r, IF authFailure(run.req) # None
                   THEN Respond(run, errorResponse(authFailure(run.req)[1]))
                   ELSE IF ~credentials
                        THEN Respond(run, errorResponse("Missing Telegram credentials"))
                   ELSE [run EXCEPT !.pc = "selectOrphans",
                                    !.user = getUser(run.req.authorization[1]),
                                    !.calls = Append(@, "trades.select orphans")])
    /\ UNCHANGED trades

\* a handler that goes from the orphan select to the count, without sending
\* deleteWebhook
SelectOrphans_without_deleteWebhook(r) ==
    /\ runs[r].pc = "selectOrphans"
    /\ LET run == runs[r]
       IN  Step(r, IF selectOrphanedTrades(trades) # {}
                   THEN [run EXCEPT !.pc = "updateOrphans",
                                    !.calls = Append(@, "trades.update orphans")]
                   ELSE [run EXCEPT !.pc = "countTrades",
                                    !.calls = Append(@, "trades.count")])
    /\ UNCHANGED trades

\* lines 180-190 and 199-201: the orphan select answers; with orphans the update
\* is sent, without them deleteWebhook is sent
SelectOrphans(r) ==
    /\ runs[r].pc = "selectOrphans"
    /\ LET run == runs[r]
       IN  Step(r, IF selectOrphanedTrades(trades) # {}
                   THEN [run EXCEPT !.pc = "updateOrphans",
                                    !.calls = Append(@, "trades.update orphans")]
                   ELSE [run EXCEPT !.pc = "deleteWebhook",
                                    !.calls = Append(@, "deleteWebhook")])
    /\ UNCHANGED trades

\* lines 187-201: the update is applied, or fails and is logged; either way
\* deleteWebhook is sent
UpdateOrphans(r) ==
    /\ runs[r].pc = "updateOrphans"
    /\ \E failed \in BOOLEAN :
        /\ trades' = IF failed THEN trades
                     ELSE updateOrphanedTrades(trades, runs[r].user[1])
        /\ Step(r, [runs[r] EXCEPT !.pc = "deleteWebhook",
                                   !.updateError = failed,
                                   !.calls = Append(@, "deleteWebhook")])

\* lines 201-208: deleteWebhook answers; the count is sent
DeleteWebhook(r) ==
    /\ runs[r].pc = "deleteWebhook"
    /\ Step(r, [runs[r] EXCEPT !.pc = "countTrades",
                               !.calls = Append(@, "trades.count")])
    /\ UNCHANGED trades

\* lines 205-220 and 264-270: the count answers; getUpdates is sent without an
\* offset, or the select of the latest trade is sent
CountTrades(r) ==
    /\ runs[r].pc = "countTrades"
    /\ LET run   == runs[r]
           count == Some(countTrades(trades, run.user[1]))
       IN  Step(r, IF shouldFetchHistorical(count)
                   THEN [run EXCEPT !.pc = "fetchHistorical",
                                    !.existingTradesCount = count,
                                    !.calls = Append(@, "getUpdates")]
                   ELSE [run EXCEPT !.pc = "selectLatest",
                                    !.existingTradesCount = count,
                                    !.calls = Append(@, "trades.select latest")])
    /\ UNCHANGED trades

\* lines 264-279: the latest trade answers; getUpdates is sent from the offset
SelectLatest(r) ==
    /\ runs[r].pc = "selectLatest"
    /\ LET run    == runs[r]
           latest == selectLatestTrade(trades, run.user[1])
       IN  Step(r, [run EXCEPT !.pc = "fetchIncremental",
                               !.latest = latest,
                               !.storedIds = messageIds({row \in trades :
                                                 row.user_id = run.user}),
                               !.offset = urlOffset(computeOffset(latest)),
                               !.calls = Append(@, "getUpdates")])
    /\ UNCHANGED trades

\* what follows the answer of getUpdates in either branch (lines 221-301): a
\* reply that is not ok throws; an ok one is parsed, and then line 299 throws
AfterFetch(run, data) ==
    IF ~data.ok
    THEN Respond([run EXCEPT !.data = Some(data)],
                 errorResponse("Telegram API error"))
    ELSE LET fetched == [run EXCEPT !.data = Some(data),
                                   !.allTrades = parseUpdates(data.result)]
         IN  IF postBranchData.throws
             THEN Respond(fetched, errorResponse(postBranchData.message))
             ELSE fetched

\* the answers the API can give to a getUpdates
Replies(offset) ==
    {[ok |-> TRUE, result |-> getUpdates(updates, offset)], [ok |-> FALSE, result |-> <<>>]}

\* lines 220-301, the branch of shouldFetchHistorical
FetchHistorical(r) ==
    /\ runs[r].pc = "fetchHistorical"
    /\ \E data \in Replies(None) : Step(r, AfterFetch(runs[r], data))
    /\ UNCHANGED trades

\* lines 279-301, the other branch
FetchIncremental(r) ==
    /\ runs[r].pc = "fetchIncremental"
    /\ \E data \in Replies(runs[r].offset) : Step(r, AfterFetch(runs[r], data))
    /\ UNCHANGED trades

Next ==
    \E r \in Runs :
        \/ Receive(r)
        \/ GetUser(r)
        \/ SelectOrphans(r)
        \/ UpdateOrphans(r)
        \/ DeleteWebhook(r)
        \/ CountTrades(r)
        \/ SelectLatest(r)
        \/ FetchHistorical(r)
        \/ FetchIncremental(r)

Spec == Init /\ [][Next]_vars

(***************************************************************************)
(* Lines 303-345 on their own                                              *)
(*                                                                         *)
(* No request gets past line 299, so the rest of the try block is taken    *)
(* as a function of what the handler holds at line 297 (user, the count,   *)
(* allTrades) and of the table: the runs start there, and their steps      *)
(* interleave at the await of the upsert.                                  *)
(***************************************************************************)
\* the elements of seq at the positions in keep, in order
RECURSIVE Subsequence(_, _)
Subsequence(seq, keep) ==
    IF seq = <<>> THEN <<>>
    ELSE Subsequence(SubSeq(seq, 1, Len(seq) - 1), keep)
         \o (IF Len(seq) \in keep THEN <<seq[Len(seq)]>> ELSE <<>>)

\* allTrades.filter((trade, index, self) => index === self.findIndex(t =>
\*     t.telegram_message_id === trade.telegram_message_id))
uniqueTrades(allTrades) ==
    Subsequence(allTrades,
        {i \in 1..Len(allTrades) :
            \A j \in 1..(i - 1) :
                allTrades[j].telegram_message_id # allTrades[i].telegram_message_id})

\* records sent without user_id
tradesWithUser_without_owner(unique, userId) ==
    [i \in 1..Len(unique) |-> [trade |-> unique[i], user_id |-> None]]

\* uniqueTrades.map(trade => ({ ...trade, user_id: user.id }))
tradesWithUser(unique, userId) ==
    [i \in 1..Len(unique) |-> [trade |-> unique[i], user_id |-> Some(userId)]]

\* the row a record becomes; id is DEFAULT gen_random_uuid(), a value no other
\* row has
insertedRow(record) ==
    Row(<<Some(record.trade.telegram_message_id), record.user_id, "inserted">>,
        Some(record.trade.telegram_message_id), record.user_id,
        tradeColumns(record.trade))

\* INSERT ... ON CONFLICT (telegram_message_id) DO NOTHING, record by record
RECURSIVE insertIgnoringDuplicates(_, _)
insertIgnoringDuplicates(rows, records) ==
    IF records = <<>> THEN rows
    ELSE LET row == insertedRow(Head(records))
         IN  insertIgnoringDuplicates(
                 IF \E old \in rows : old.telegram_message_id = row.telegram_message_id
                 THEN rows ELSE rows \cup {row},
                 Tail(records))

\* the statement is rejected as a whole when a record violates the CHECK on
\* action
violatesCheck(records) ==
    \E i \in 1..Len(records) : ~trades_action_check(records[i].trade.action)

\* the response of lines 333-345
successResponse(historical, count) ==
    [status  |-> 200,
     headers |-> {"cors", "Content-Type"},
     body    |-> Some([success      |-> TRUE,
                       trades_found |-> count,
                       message      |->
                           IF historical
                           THEN "Successfully imported " \o ToString(count)
                                \o " historical trades"
                           ELSE "Successfully processed " \o ToString(count)
                                \o " new trades"])]

\* a closed position whose text holds VINST
text_closed_VINST ==
    text_closed_win \o <<" ", "V", "I", "N", "S", "T">>

\* what allTrades can hold at line 297: the trades of the update lists, and one
\* whose action the table does not allow
Batches ==
    {parseUpdates(w) : w \in Windows}
    \cup {<<parseTradingMessage([message_id |-> 2, text |-> Some(text_closed_VINST),
                                 date |-> 1700000002, chat_id |-> chatId])[1]>>}

\* a run at line 297
runAtLine297(userId, count, batch) ==
    [idleRun EXCEPT !.pc = "dedupe",
                    !.req = [method |-> "POST",
                             authorization |-> Some("jwt-" \o userId)],
                    !.user = Some(userId),
                    !.existingTradesCount = Some(count),
                    !.allTrades = batch]

InitPersist ==
    /\ trades \in Tables
    /\ updates = <<>>
    /\ credentials = TRUE
    /\ probe = noProbe
    /\ \E users \in [Runs -> Users], batches \in [Runs -> Batches] :
          runs = [r \in Runs |->
                     runAtLine297(users[r], countTrades(trades, users[r]), batches[r])]

\* lines 303-320: the duplicates go; with nothing left the response is sent,
\* otherwise the upsert
Dedupe(r) ==
    /\ runs[r].pc = "dedupe"
    /\ LET unique == uniqueTrades(runs[r].allTrades)
           run    == [runs[r] EXCEPT !.uniqueTrades = unique]
       IN  Step(r, IF Len(unique) > 0
                   THEN [run EXCEPT !.pc = "upsert", !.calls = Append(@, "trades.upsert")]
                   ELSE Respond(run, successResponse(
                            shouldFetchHistorical(run.existingTradesCount), Len(unique))))
    /\ UNCHANGED trades

\* lines 320-345: the upsert answers. The database applies it, or rejects it:
\* for the CHECK on action, or for a reason of its own (insertError is an
\* object that is no Error, so the catch block reports 'Unknown error')
Upsert(r) ==
    /\ runs[r].pc = "upsert"
    /\ \E rejected \in BOOLEAN :
        LET run     == runs[r]
            records == tradesWithUser(run.uniqueTrades, run.user[1])
            stored  == insertIgnoringDuplicates(trades, records)
        IN  IF rejected \/ violatesCheck(records)
            THEN /\ trades' = trades
                 /\ Step(r, Respond([run EXCEPT !.insertError = TRUE],
                                    errorResponse("Unknown error")))
            ELSE /\ trades' = stored
                 /\ Step(r, Respond([run EXCEPT !.inserted =
                                         {row.id : row \in stored \ trades}],
                                    successResponse(
                                        shouldFetchHistorical(run.existingTradesCount),
                                        Len(run.uniqueTrades))))

NextPersist == \E r \in Runs : Dedupe(r) \/ Upsert(r)

SpecPersist == InitPersist /\ [][NextPersist]_vars

(***************************************************************************)
(* Properties of the handler                                               *)
(***************************************************************************)
ended(run) == run.pc = "done"
body(run) == run.response[1].body[1]
failed(run) ==
    /\ run.response # None
    /\ run.response[1].status = 500
    /\ run.response[1].body # None
    /\ body(run).success = FALSE
    /\ "error" \in DOMAIN body(run)
succeeded(run) ==
    /\ run.response # None
    /\ run.response[1].status = 200
    /\ run.response[1].body # None
    /\ body(run).success = TRUE
    /\ {"trades_found", "message"} \subseteq DOMAIN body(run)
\* the request names no user: no Authorization header, or a token of no user
unauthorized(req) ==
    req.authorization = None \/ req.authorization[1] \notin {"jwt-u1", "jwt-u2"}
sourceOk(run) == run.data # None /\ run.data[1].ok
sourceNotOk(run) == run.data # None /\ ~run.data[1].ok
called(run, name) == \E i \in 1..Len(run.calls) : run.calls[i] = name
\* the cursor of the getUpdates the run sent
sentGetUpdates(run) == called(run, "getUpdates")
cursor(run) == run.offset

C2_SuccessResponse ==
    \A r \in Runs :
        (ended(runs[r]) /\ runs[r].user # None /\ sourceOk(runs[r])
         /\ ~runs[r].updateError)
            => succeeded(runs[r])

\* C3: of two runs of one caller back to back over the same updates, the
\* first reports a count and the second reports trades_found = 0.
C3_SecondRunFindsNothing ==
    \A r1, r2 \in Runs :
        (r1 \in runs[r2].after /\ ended(runs[r2])
         /\ runs[r1].user # None /\ runs[r1].user = runs[r2].user
         /\ sourceOk(runs[r1]) /\ sourceOk(runs[r2]))
            => /\ succeeded(runs[r1]) /\ succeeded(runs[r2])
               /\ body(runs[r2]).trades_found = 0

\* C4: when two messages of a fetched batch carry the same id and both parse,
\* the ended run has persisted exactly one row with that id.
C4_OneRowPerDuplicate ==
    \A r \in Runs :
        (ended(runs[r]) /\ sourceOk(runs[r]))
            => \A i, j \in 1..Len(runs[r].allTrades) :
                (i < j /\ runs[r].allTrades[i].telegram_message_id
                          = runs[r].allTrades[j].telegram_message_id)
                    => Cardinality({row \in trades : row.telegram_message_id
                           = Some(runs[r].allTrades[i].telegram_message_id)}) = 1

\* C5: a run fetches without a cursor exactly when it counted zero rows of the
\* caller; otherwise its cursor is the caller's highest stored id plus one
\* (stated for tables whose rows all carry a telegram_message_id).
C5_CursorSelection ==
    \A r \in Runs :
        (sentGetUpdates(runs[r]) /\ \A row \in trades : row.telegram_message_id # None)
            => /\ cursor(runs[r]) = None <=> runs[r].existingTradesCount = Some(0)
               /\ runs[r].existingTradesCount # Some(0)
                    => /\ runs[r].storedIds # {}
                       /\ cursor(runs[r]) = Some(Max(runs[r].storedIds) + 1)

\* C6: a request without Authorization header, or with a token of no user,
\* ends in a failure response, and its run calls nothing but getUser: no
\* select, update or upsert of trades, no deleteWebhook, no getUpdates.
C6_UnauthorizedDoesNothing ==
    \A r \in Runs :
        (runs[r].pc # "idle" /\ runs[r].req.method = "POST" /\ unauthorized(runs[r].req))
            => /\ \A i \in 1..Len(runs[r].calls) : runs[r].calls[i] = "auth.getUser"
               /\ runs[r].pc \in {"getUser", "done"}
               /\ ended(runs[r]) => failed(runs[r])
               /\ runs[r].req.authorization = None => ended(runs[r]) /\ runs[r].calls = <<>>

\* a run with a token of no user has ended, and another with no header
C6_Witness ==
    \E r1, r2 \in Runs :
        /\ ended(runs[r1]) /\ runs[r1].req = [method |-> "POST", authorization |-> Some("jwt-bad")]
        /\ ended(runs[r2]) /\ runs[r2].req = [method |-> "POST", authorization |-> None]
        /\ selectOrphanedTrades(trades) # {}

\* C7: when the source's reply to the run's getUpdates is not ok, in either
\* mode, the run ends in a failure response, and the stored
\* telegram_message_ids are those stored when the request arrived.
C7_SourceUnavailable ==
    \A r \in Runs :
        sourceNotOk(runs[r])
            => /\ ended(runs[r]) /\ failed(runs[r])
               /\ runs[r].allTrades = <<>>
               /\ messageIds(trades) = runs[r].idsBefore

\* a run in each mode got a reply that is not ok while the source held trades
C7_Witness ==
    \E r1, r2 \in Runs :
        /\ sourceNotOk(runs[r1]) /\ runs[r1].existingTradesCount = Some(0)
        /\ sourceNotOk(runs[r2]) /\ runs[r2].existingTradesCount # Some(0)
        /\ runs[r2].offset # None
        /\ \E i \in 1..Len(updates) : updates[i].message # None
              /\ updates[i].message[1].chat_id = chatId
              /\ parsed[updates[i].message[1]] # None

\* C8: a run whose update of the orphaned rows failed makes no further call
\* and returns a failure response.
C8_UpdateFailureAborts ==
    \A r \in Runs :
        runs[r].updateError
            => /\ runs[r].calls[Len(runs[r].calls)] = "trades.update orphans"
               /\ ended(runs[r]) /\ failed(runs[r])

\* C9: a run has a response exactly when it has ended; a pre-flight request is
\* answered 200 with the CORS headers and no body, without any call; every
\* other ended run here ended on a thrown error and is answered 500 with
\* success = false and an error.
C9_OneResponse ==
    \A r \in Runs :
        /\ ended(runs[r]) <=> runs[r].response # None
        /\ ended(runs[r]) =>
            IF runs[r].req.method = "OPTIONS"
            THEN /\ runs[r].response[1].status = 200
                 /\ runs[r].response[1].headers = {"cors"}
                 /\ runs[r].response[1].body = None
                 /\ runs[r].calls = <<>>
                 /\ runs[r].user = None
            ELSE /\ failed(runs[r])
                 /\ "cors" \in runs[r].response[1].headers

\* a pre-flight request that carries a token has been answered, and a run that
\* reached line 299 has been answered
C9_Witness ==
    \E r1, r2 \in Runs :
        /\ ended(runs[r1]) /\ runs[r1].req = [method |-> "OPTIONS", authorization |-> Some("jwt-u1")]
        /\ ended(runs[r2]) /\ sourceOk(runs[r2])
        /\ body(runs[r2]).error = postBranchData.message

\* the columns of a row other than its owner
columnsOf(row) ==
    [symbol |-> row.symbol, action |-> row.action, price |-> row.price,
     quantity |-> row.quantity, profit_loss |-> row.profit_loss,
     timestamp |-> row.timestamp, telegram_message_id |-> row.telegram_message_id,
     raw_message |-> row.raw_message]
\* the row was stored without owner and has one now
adopted(row) == row.id[2] = None /\ row.user_id # None

\* C13: no step of any run changes a stored row's symbol, action, price,
\* quantity, profit_loss, timestamp, telegram_message_id or raw_message, and
\* a row's user_id changes only from NULL to the id of a user; no row goes.
C13_RowsImmutable ==
    [][\A row \in trades :
          \E new \in trades' :
              /\ new.id = row.id
              /\ columnsOf(new) = columnsOf(row)
              /\ \/ new.user_id = row.user_id
                 \/ row.user_id = None /\ new.user_id \in {Some(u) : u \in Users}]_vars

\* an orphaned row has been adopted beside a row of another owner, and a run
\* of that other owner has gone past its adoption step since
C13_Witness ==
    \E r1, r2 \in Runs, a, b \in trades :
        /\ adopted(a) /\ a.user_id = runs[r1].user
        /\ b.id[2] # None /\ b.user_id = b.id[2] /\ b.user_id # a.user_id
        /\ runs[r2].user = b.user_id /\ ended(runs[r2]) /\ r1 \in runs[r2].after

\* the run has gone past its adoption step and its update, if any, succeeded
adoptionDone(run) ==
    /\ run.user # None
    /\ run.pc \notin {"idle", "getUser", "selectOrphans", "updateOrphans"}
    /\ ~run.updateError

callsOf(run, name) == {i \in 1..Len(run.calls) : run.calls[i] = name}

\* C19: every run sends deleteWebhook at most once, after getUser has named
\* its user, and sends getUpdates only after deleteWebhook.
C19_DeleteWebhookFirst ==
    \A r \in Runs :
        LET run == runs[r]
        IN  /\ Cardinality(callsOf(run, "deleteWebhook")) <= 1
            /\ \A i \in callsOf(run, "deleteWebhook") :
                  /\ run.user # None /\ authFailure(run.req) = None
                  /\ \E j \in callsOf(run, "auth.getUser") : j < i
            /\ \A i \in callsOf(run, "getUpdates") :
                  \E j \in callsOf(run, "deleteWebhook") : j < i
            /\ run.data # None => callsOf(run, "getUpdates") # {}

\* a run of each mode has fetched, one of them after an adoption
C19_Witness ==
    \E r1, r2 \in Runs :
        /\ runs[r1].data # None /\ runs[r1].existingTradesCount = Some(0)
        /\ runs[r2].data # None /\ runs[r2].existingTradesCount # Some(0)
        /\ called(runs[r2], "trades.update orphans")

\* C15: every row a run's upsert adds carries as user_id the id of the user
\* the run's token belongs to: none is added without owner or with the id of
\* another user.
C15_InsertedRowsOwned ==
    [][\A r \in Runs :
          runs'[r] # runs[r]
              => \A row \in trades' \ trades :
                    /\ row.user_id # None
                    /\ row.user_id = runs[r].user
                    /\ row.user_id = getUser(runs[r].req.authorization[1])]_vars

\* the upserts of two runs of different users have each added a row
C15_Witness ==
    \E r1, r2 \in Runs :
        /\ runs[r1].user # runs[r2].user
        /\ runs[r1].inserted # {} /\ runs[r2].inserted # {}
        /\ \A r \in {r1, r2} : \E row \in trades :
              row.id \in runs[r].inserted /\ row.user_id = runs[r].user

C21_ActionsAccepted ==
    \A r \in Runs :
        (ended(runs[r]) /\ failed(runs[r]))
            => \A i \in 1..Len(runs[r].uniqueTrades) :
                  trades_action_check(runs[r].uniqueTrades[i].action)

(***************************************************************************)
(* parseTradingMessage on its own: a message is drawn and parsed           *)
(***************************************************************************)
MaxFragments == 3

frag_opened ==
    <<"P", "o", "s", "i", "t", "i", "o", "n", " ", "o", "p", "e", "n", "e", "d">>
frag_pair ==
    <<"B", "T", "C", "-", "U", "S", "D", "T", " ", "@", " ", "5", "0", "0", "0", "0">>
frag_trade ==
    <<"S", "y", "m", "b", "o", "l", ":", " ", "e", "t", "h", "-", "u", "s", "d", "t", " ", "U", "t", "g", "aa", "n", "g", "s", "p", "r", "i", "s", ":", " ", "$", "0", ".", "6", "7", "3", "0", "0", "0">>
frag_pnl ==
    <<"P", "n", "L", ":", " ", "$", "-", "0", ".", "0", "1", "1", "7">>
frag_forlust ==
    <<"F", "oe", "r", "l", "u", "s", "t", ":", " ", "$", "1", "2", "0">>
frag_vinst ==
    <<"V", "i", "n", "s", "t", ":", " ", "5">>
frag_resultat ==
    <<"R", "e", "s", "u", "l", "t", "a", "t", ":", " ", "-", "3", ".", "5", "0">>
frag_stangd ==
    <<"DOWN", " ", "P", "O", "S", "I", "T", "I", "O", "N", " ", "S", "T", "AE", "N", "G", "D", "LF">>
frag_VINST ==
    <<"V", "I", "N", "S", "T">>
frag_LOSS ==
    <<"L", "O", "S", "S">>

\* the pieces the texts are put together from
Fragments ==
    { frag_opened, frag_pair, frag_trade, frag_pnl, frag_forlust, frag_vinst,
      frag_resultat, frag_stangd, frag_VINST, frag_LOSS }

RECURSIVE Concat(_)
Concat(pieces) == IF pieces = <<>> THEN <<>> ELSE Head(pieces) \o Concat(Tail(pieces))

\* the texts of up to MaxFragments pieces
FragmentTexts ==
    {Concat(pieces) : pieces \in UNION {[1..n -> Fragments] : n \in 0..MaxFragments}}

\* amounts as they are written after a loss label
AmountLiterals ==
    { <<"1", "2", "0">>, <<"+", "1", "2", "0">>, <<"-", "1", "2", "0">>,
      <<"0">>, <<"-", "0", ".", "5", "0">>, <<"0", ".", "0", "0">> }
label_forlust ==
    <<"f", "oe", "r", "l", "u", "s", "t", ":">>
\* what may stand between a label and its amount
Gaps == { <<>>, <<" ">>, <<"$">>, <<" ", "$">> }

\* a trade whose result stands under the loss label
LossLabelTexts ==
    {frag_trade \o <<" ">> \o label \o gap \o literal :
        label \in {needle_Forlust, label_forlust}, gap \in Gaps,
        literal \in AmountLiterals}

\* a closed position in the format of the comment of line 98: the exit price
\* after a chart emoji, and no result
text_emoji_exit ==
    <<"S", "y", "m", "b", "o", "l", ":", " ", "B", "T", "C", "-", "U", "S", "D", "T", " ", "UP", " ", "U", "t", "g", "aa", "n", "g", "s", "p", "r", "i", "s", ":", " ", "$", "0", ".", "6", "7", "3", "0", "0", "0">>

Texts ==
    FragmentTexts \cup LossLabelTexts
    \cup {text_stangd_pnl, text_closed_win, text_emoji_exit}

\* the messages parsed: one without text, and one with each text
ProbeMessages ==
    {[message_id |-> 7, text |-> t, date |-> 1700000000, chat_id |-> chatId] :
        t \in {None} \cup {Some(x) : x \in Texts}}

InitParse ==
    /\ trades = {}
    /\ updates = <<>>
    /\ credentials = TRUE
    /\ runs = [r \in Runs |-> idleRun]
    /\ probe \in {[message |-> Some(m), returned |-> FALSE, result |-> None] :
                     m \in ProbeMessages}

\* parseTradingMessage(message) returns
Parse ==
    /\ probe.message # None /\ ~probe.returned
    /\ probe' = [probe EXCEPT !.returned = TRUE,
                              !.result = parseTradingMessage(probe.message[1])]
    /\ UNCHANGED <<trades, updates, credentials, runs>>

NextParse == Parse

SpecParse == InitParse /\ [][NextParse]_vars

(***************************************************************************)
(* Properties of parseTradingMessage                                       *)
(***************************************************************************)
\* the close indicators of the relevance filter
CloseIndicators ==
    { needle_POSITION_STANGD, needle_POSITION_CLOSED, needle_STANGD_POSITION,
      needle_AVSLUTAD_POSITION, needle_PnL, needle_Vinst, needle_Forlust, needle_vinst,
      needle_forlust, needle_resultat, needle_profit, needle_loss, emoji_up, emoji_down }

hasCloseIndicator(message) ==
    /\ message.text # None
    /\ \E needle \in CloseIndicators : includes(message.text[1], needle)

\* C10: parse returns null for every message whose text is absent or contains
\* none of the close indicators, whatever symbol, price or amounts it contains.
C10_SkipWithoutIndicator ==
    (probe.returned /\ ~hasCloseIndicator(probe.message[1])) => probe.result = None

\* a text without indicator that has a symbol, an exit price and an amount
\* under a label has been parsed
C10_Witness ==
    /\ probe.returned
    /\ probe.message[1].text = Some(frag_trade \o frag_resultat \o frag_VINST)
    /\ ~hasCloseIndicator(probe.message[1])

\* the text of the message parsed, and the record returned
probeText == probe.message[1].text[1]
probeTrade == probe.result[1]
parsedToTrade == probe.returned /\ probe.result # None

\* the P/L was read by the pattern of the loss label
lossLabelUsed(text) == FirstMatch(pnlPatterns(text)) = LossPattern

\* C11: when the P/L of a parsed message is read from the loss label, the
\* record's profit_loss is at most zero: a positive literal is negated
\* (Forlust: $120 gives -120), a negative or zero literal is kept.
C11_LossLabelSign ==
    (parsedToTrade /\ lossLabelUsed(probeText))
        => LET literal == parseFloat(pnlPatterns(probeText)[LossPattern][1])
               pl      == probeTrade.profit_loss
           IN  /\ pl # None
               /\ pl[1].m <= 0
               /\ pl[1] = IF literal.m > 0 THEN [m |-> 0 - literal.m, e |-> literal.e]
                          ELSE literal
               /\ probeText = frag_trade \o frag_forlust
                    => pl[1] = [m |-> 0 - 120, e |-> 0]

\* the trade with the loss label and the positive literal 120 has been parsed
C11_Witness ==
    /\ parsedToTrade
    /\ probeText = frag_trade \o frag_forlust
    /\ lossLabelUsed(probeText)
    /\ probeTrade.profit_loss = Some([m |-> 0 - 120, e |-> 0])

\* C12: the message with the text text_stangd_pnl (chart-down emoji, POSITION
\* STANGD, Symbol: BTC-USDT, Utgangspris: $0.673000, PnL: $-0.0117), message_id
\* 7 and date 1700000000 parses to symbol BTC-USDT, action CLOSE_LOSS, price 0.673,
\* profit_loss -0.0117, telegram_message_id 7 and timestamp
\* 2023-11-14T22:13:20.000Z.
C12_EndToEndParse ==
    (probe.returned /\ probe.message[1].text = Some(text_stangd_pnl)
     /\ probe.message[1].message_id = 7 /\ probe.message[1].date = 1700000000)
        => /\ probe.result # None
           /\ probeTrade.symbol = <<"B", "T", "C", "-", "U", "S", "D", "T">>
           /\ probeTrade.action = "CLOSE_LOSS"
           /\ probeTrade.price = [m |-> 673, e |-> 3]
           /\ probeTrade.profit_loss = Some([m |-> 0 - 117, e |-> 4])
           /\ probeTrade.telegram_message_id = 7
           /\ probeTrade.timestamp = "2023-11-14T22:13:20.000Z"

\* the characters a normalized trading-pair token is written in
UppercaseTokenChars == {UpperSeq[i] : i \in 1..26} \cup Digit \cup {"-"}

\* C16: every record parse returns has a non-empty symbol written in upper
\* case, whatever the letter case of the pair in the text.
C16_SymbolUppercase ==
    parsedToTrade
        => /\ probeTrade.symbol # <<>>
           /\ \A i \in 1..Len(probeTrade.symbol) :
                 probeTrade.symbol[i] \in UppercaseTokenChars

\* the profit and the loss words the relevance filter accepts
ProfitWords == {needle_Vinst, needle_vinst, needle_profit}
LossWords == {needle_Forlust, needle_forlust, needle_loss}
hasWord(text, words) == \E word \in words : includes(text, word)

\* C17: the action of a record is CLOSE_WIN when the text contains a profit
\* word of the relevance filter, otherwise CLOSE_LOSS when it contains a loss
\* word of the filter, otherwise CLOSE.
C17_ActionFromFilterWords ==
    parsedToTrade
        => probeTrade.action =
             IF hasWord(probeText, ProfitWords) THEN "CLOSE_WIN"
             ELSE IF hasWord(probeText, LossWords) THEN "CLOSE_LOSS"
             ELSE "CLOSE"

\* C18: a record with a profit_loss has profit_loss <= 0 when its action is
\* CLOSE_LOSS and profit_loss >= 0 when its action is CLOSE_WIN.
C18_SignMatchesAction ==
    (parsedToTrade /\ probeTrade.profit_loss # None)
        => /\ probeTrade.action = "CLOSE_LOSS" => probeTrade.profit_loss[1].m <= 0
           /\ probeTrade.action = "CLOSE_WIN" => probeTrade.profit_loss[1].m >= 0

\* the matches of the patterns of the four P/L labels (PnL:, Vinst:, Forlust:,
\* Resultat:), in their order
labelledAmounts(text) == SubSeq(pnlPatterns(text), 1, 4)

\* C22: a record has a profit_loss only if the text has a P/L label followed
\* by an amount, and it is then the amount of the first such label in the
\* order PnL:, Vinst:, Forlust:, Resultat: (made negative under the loss
\* label); it is never the amount of another field, such as the exit price
\* after a chart emoji.
C22_ProfitLossFromLabel ==
    parsedToTrade
        => LET k == FirstMatch(labelledAmounts(probeText))
           IN  IF k = 0 THEN probeTrade.profit_loss = None
               ELSE LET amount == parseFloat(labelledAmounts(probeText)[k][1])
                    IN  probeTrade.profit_loss =
                            Some(IF k = LossPattern /\ amount.m > 0
                                 THEN [m |-> 0 - amount.m, e |-> amount.e]
                                 ELSE amount)

====
